---- MODULE Spec2Model ----
(***************************************************************************)
(* A model of format.py: the control-string parser (parse_spec,            *)
(* parse_directive, parse_args, parse_at_colon) and the interpreter (emit  *)
(* and every directive's emit method).  Text is a sequence of one-character*)
(* strings.  Positions are the 0-based positions of the Python code.       *)
(***************************************************************************)
EXTENDS Integers, Sequences, FiniteSets, TLC

VARIABLES spec, args, formatters, phase, idx, pos, newline, file, reads, last, passes

vars == <<spec, args, formatters, phase, idx, pos, newline, file, reads, last, passes>>

(***************************************************************************)
(* Python values.  Every value is a record of the same shape:              *)
(*   kind "int" (n), "bool" (n is 1 or 0), "float" (the whole float n.0),  *)
(*   "str" (s), "none".                                                    *)
(***************************************************************************)
IntV(n) == [kind |-> "int", n |-> n, s |-> <<>>]

BoolV(b) == [kind |-> "bool", n |-> IF b THEN 1 ELSE 0, s |-> <<>>]

FloatV(n) == [kind |-> "float", n |-> n, s |-> <<>>]

StrV(s) == [kind |-> "str", n |-> 0, s |-> s]

NoneV == [kind |-> "none", n |-> 0, s |-> <<>>]

\* bool(v), as `if args[pos]` and `a or b` evaluate it
Truthy(v) ==
    CASE v.kind \in {"int", "bool", "float"} -> v.n # 0
      [] v.kind = "str" -> v.s # <<>>
      [] OTHER -> FALSE

\* v == 1
EqualsOne(v) == v.kind \in {"int", "bool", "float"} /\ v.n = 1

\* int and bool are the values Python accepts as integers
IsInt(v) == v.kind \in {"int", "bool"}

\* seq[i] of Python: a negative index counts from the end
InRange(s, i) == -Len(s) <= i /\ i < Len(s)

PyIndex(s, i) == IF i < 0 THEN s[Len(s) + i + 1] ELSE s[i + 1]

\* s[a:b] for 0 <= a <= b <= len(s)
Slice(s, a, b) == IF b <= a THEN <<>> ELSE SubSeq(s, a + 1, b)

Repeat(s, k) == IF k <= 0 THEN <<>> ELSE [i \in 1..(k * Len(s)) |-> s[((i - 1) % Len(s)) + 1]]

RECURSIVE Flatten(_)
Flatten(ss) == IF ss = <<>> THEN <<>> ELSE Head(ss) \o Flatten(Tail(ss))

(***************************************************************************)
(* Characters                                                              *)
(***************************************************************************)
NL == "\n"

DigitChars == <<"0", "1", "2", "3", "4", "5", "6", "7", "8", "9", "a", "b", "c", "d", "e", "f">>

DecimalDigits == {DigitChars[i] : i \in 1..10}

DigitVal(c) == (CHOOSE i \in 1..16 : DigitChars[i] = c) - 1

LowerChars == <<"a", "b", "c", "d", "e", "f", "g", "h", "i", "j", "k", "l", "m",
                "n", "o", "p", "q", "r", "s", "t", "u", "v", "w", "x", "y", "z">>

UpperChars == <<"A", "B", "C", "D", "E", "F", "G", "H", "I", "J", "K", "L", "M",
                "N", "O", "P", "Q", "R", "S", "T", "U", "V", "W", "X", "Y", "Z">>

IsLower(c) == \E i \in 1..26 : LowerChars[i] = c

IsUpper(c) == \E i \in 1..26 : UpperChars[i] = c

LowerChar(c) == IF IsUpper(c) THEN LowerChars[CHOOSE i \in 1..26 : UpperChars[i] = c] ELSE c

UpperChar(c) == IF IsLower(c) THEN UpperChars[CHOOSE i \in 1..26 : LowerChars[i] = c] ELSE c

\* \w of the re module
IsWordChar(c) == IsLower(c) \/ IsUpper(c) \/ c \in DecimalDigits \/ c = "_"

Lower(s) == [i \in 1..Len(s) |-> LowerChar(s[i])]

Upper(s) == [i \in 1..Len(s) |-> UpperChar(s[i])]

\* str.capitalize
Capitalize(s) == [i \in 1..Len(s) |-> IF i = 1 THEN UpperChar(s[i]) ELSE LowerChar(s[i])]

(***************************************************************************)
(* Integers as text                                                        *)
(***************************************************************************)
RECURSIVE Pow(_, _)
Pow(b, k) == IF k <= 0 THEN 1 ELSE b * Pow(b, k - 1)

RECURSIVE NatDigits(_, _)
NatDigits(n, base) ==
    IF n < base THEN <<DigitChars[n + 1]>>
    ELSE NatDigits(n \div base, base) \o <<DigitChars[(n % base) + 1]>>

\* '{:d}'.format(n), '{:b}', '{:o}', '{:x}'
FmtFormat(n, base) == IF n < 0 THEN <<"-">> \o NatDigits(-n, base) ELSE NatDigits(n, base)

RECURSIVE ParseNat(_, _)
ParseNat(ds, acc) == IF ds = <<>> THEN acc ELSE ParseNat(Tail(ds), acc * 10 + DigitVal(Head(ds)))

\* int(text) for text matching -?\d+
ParseInt(ds) == IF Head(ds) = "-" THEN -ParseNat(Tail(ds), 0) ELSE ParseNat(ds, 0)

\* str(o)
Str(v) ==
    CASE v.kind = "int" -> FmtFormat(v.n, 10)
      [] v.kind = "bool" -> IF v.n = 1 THEN <<"T", "r", "u", "e">> ELSE <<"F", "a", "l", "s", "e">>
      [] v.kind = "float" -> FmtFormat(v.n, 10) \o <<".", "0">>
      [] v.kind = "str" -> v.s
      [] OTHER -> <<"N", "o", "n", "e">>

ReprChar(c) == IF c = NL THEN <<"\\", "n">> ELSE IF c = "\\" THEN <<"\\", "\\">> ELSE <<c>>

\* repr(o); the texts of the model hold no quote character, so repr quotes with '
Repr(v) ==
    IF v.kind = "str"
    THEN <<"'">> \o Flatten([i \in 1..Len(v.s) |-> ReprChar(v.s[i])]) \o <<"'">>
    ELSE Str(v)

(***************************************************************************)
(* Nodes.  Every node is a record of the same shape; cls is the class name.*)
(***************************************************************************)
Node(cls, params, at, colon) ==
    [cls |-> cls, params |-> params, at |-> at, colon |-> colon,
     text |-> <<>>, formatters |-> <<>>, clauses |-> <<>>, delimiters |-> <<>>]

Text(text) == [Node("Text", <<>>, FALSE, FALSE) EXCEPT !.text = text]

\* the None that Conditional.__init__ records before the first separator
NoDelimiter == Node("None", <<>>, FALSE, FALSE)

\* the @directive and @end_directive registrations
classes ==
    [c \in {"c", "%", "&", "r", "d", "b", "o", "x", "a", "s", "*", "[", "]", "{", ";", "(", ")", "p"} |->
        CASE c = "c" -> "Character" [] c = "%" -> "Newline" [] c = "&" -> "Freshline"
          [] c = "r" -> "Number" [] c = "d" -> "Decimal" [] c = "b" -> "Binary"
          [] c = "o" -> "Octal" [] c = "x" -> "Hex" [] c = "a" -> "Aesthetic"
          [] c = "s" -> "Standard" [] c = "*" -> "Goto" [] c = "[" -> "Conditional"
          [] c = "]" -> "EndConditional" [] c = "{" -> "Iteration" [] c = ";" -> "Semicolon"
          [] c = "(" -> "CaseConversion" [] c = ")" -> "EndCaseConversion" [] OTHER -> "Plural"]

ends == [c \in {"[", "("} |-> IF c = "[" THEN "EndConditional" ELSE "EndCaseConversion"]

\* Conditional.__init__: split the body on the Semicolon nodes
RECURSIVE SplitClauses(_, _, _, _, _, _)
SplitClauses(fs, i, start, delim, delimiters, clauses) ==
    IF i >= Len(fs)
    THEN [delimiters |-> Append(delimiters, delim), clauses |-> Append(clauses, Slice(fs, start, Len(fs)))]
    ELSE IF fs[i + 1].cls = "Semicolon"
         THEN SplitClauses(fs, i + 1, i + 1, fs[i + 1],
                           Append(delimiters, delim), Append(clauses, Slice(fs, start, i)))
         ELSE SplitClauses(fs, i + 1, start, delim, delimiters, clauses)

Conditional(params, at, colon, fs) ==
    LET Split(r) ==
            [Node("Conditional", params, at, colon) EXCEPT !.delimiters = r.delimiters, !.clauses = r.clauses]
    IN  Split(SplitClauses(fs, 0, 0, NoDelimiter, <<>>, <<>>))

Iteration(params, at, colon, fs) == [Node("Iteration", params, at, colon) EXCEPT !.formatters = fs]

CaseConversion(params, at, colon, fs) == [Node("CaseConversion", params, at, colon) EXCEPT !.formatters = fs]

(***************************************************************************)
(* Lexers                                                                  *)
(***************************************************************************)
RECURSIVE DigitsEnd(_, _)
DigitsEnd(s, p) == IF p < Len(s) /\ s[p + 1] \in DecimalDigits THEN DigitsEnd(s, p + 1) ELSE p

\* where the digits of -?\d+ start
DigitsStart(s, p) == IF s[p + 1] = "-" THEN p + 1 ELSE p

\* arg_pat.match(spec, p): (-?\d+)|('.)|()
arg_pat(s, p) ==
    LET Match(e) ==
            IF e > DigitsStart(s, p)
            THEN [val |-> IntV(ParseInt(Slice(s, p, e))), end |-> e]
            ELSE IF s[p + 1] = "'" /\ p + 1 < Len(s) /\ s[p + 2] # NL
                 THEN [val |-> StrV(<<s[p + 2]>>), end |-> p + 2]
                 ELSE [val |-> NoneV, end |-> p]
    IN  Match(DigitsEnd(s, DigitsStart(s, p)))

RECURSIVE parse_args_loop(_, _, _)
parse_args_loop(s, p, as) ==
    IF p >= Len(s)
    THEN [err |-> "", args |-> as, p |-> p]
    ELSE LET Matched(m) ==
                 IF m.end >= Len(s)
                 THEN [err |-> "IndexError", args |-> as, p |-> m.end]
                 ELSE IF s[m.end + 1] # ","
                      THEN [err |-> "", args |-> Append(as, m.val), p |-> m.end]
                      ELSE parse_args_loop(s, m.end + 1, Append(as, m.val))
         IN  Matched(arg_pat(s, p))

parse_args(s, p) == parse_args_loop(s, p, <<>>)

IsFlag(s, p) == p < Len(s) /\ s[p + 1] \in {":", "@"}

\* at_colon.match(spec, pos): [:@]{0,2}
parse_at_colon(s, p) ==
    LET Matched(m, e) ==
            [at |-> \E i \in 1..Len(m) : m[i] = "@", colon |-> \E i \in 1..Len(m) : m[i] = ":", p |-> e]
        End(one, two) == IF one /\ two THEN p + 2 ELSE IF one THEN p + 1 ELSE p
        To(e) == Matched(Slice(s, p, e), e)
    IN  To(End(IsFlag(s, p), IsFlag(s, p + 1)))

(***************************************************************************)
(* Parser.  A result is [err, formatters, p, terminated, colon]: err is the*)
(* exception raised ("" for none); terminated tells the tuple that         *)
(* parse_spec returns at a terminator from the list it returns at the end  *)
(* of the control string.                                                  *)
(***************************************************************************)
ParseFailure(e) == [err |-> e, formatters |-> <<>>, p |-> 0, terminated |-> FALSE, colon |-> FALSE]

RECURSIVE parse_spec_loop(_, _, _, _, _)
RECURSIVE parse_directive(_, _, _)

Parsed(formatter, p) ==
    [err |-> "", formatters |-> <<formatter>>, p |-> p, terminated |-> FALSE, colon |-> FALSE]

parse_directive(s, p0, end) ==
    LET \* the body r of a bracket directive has been parsed
        Bracket(char, params, at, colon, r) ==
            IF r.err # "" THEN r
            \* the list returned at the end of the string does not unpack into
            \* (formatters, p, end_colon), or unpacks into three nodes
            ELSE IF ~r.terminated
            THEN ParseFailure(IF Len(r.formatters) = 3 THEN "TypeError" ELSE "ValueError")
            ELSE Parsed(IF char = "[" THEN Conditional(params, at, colon, r.formatters)
                        ELSE IF char = "{" THEN Iteration(params, at, colon, r.formatters)
                        ELSE CaseConversion(params, at, colon, r.formatters),
                        r.p)
        Dispatch(char, params, at, colon, p) ==
            IF char = "~" THEN Parsed(Text(<<"~">>), p + 1)
            ELSE IF char \in {"[", "{", "("}
            THEN IF char \notin DOMAIN ends THEN ParseFailure("KeyError")
                 ELSE Bracket(char, params, at, colon, parse_spec_loop(s, p + 1, p + 1, ends[char], <<>>))
            ELSE IF char \notin DOMAIN classes THEN ParseFailure("KeyError")
            ELSE Parsed(Node(classes[char], params, at, colon), p + 1)
        Flagged(params, f) ==
            IF f.p >= Len(s) THEN ParseFailure("IndexError")
            ELSE Dispatch(LowerChar(s[f.p + 1]), params, f.at, f.colon, f.p)
        Params(a) == IF a.err # "" THEN ParseFailure(a.err) ELSE Flagged(a.args, parse_at_colon(s, a.p))
    IN  Params(parse_args(s, p0))

parse_spec_loop(s, p_start, p, end, fs) ==
    LET \* the directive d follows the nodes fs1
        Directed(fs1, d) ==
            IF d.err # "" THEN d
            ELSE IF end # "None" /\ d.formatters[1].cls = end
            THEN [err |-> "", formatters |-> fs1, p |-> d.p, terminated |-> TRUE,
                  colon |-> d.formatters[1].colon]
            ELSE parse_spec_loop(s, d.p, d.p, end, Append(fs1, d.formatters[1]))
    IN  IF p >= Len(s)
        THEN [err |-> "", formatters |-> IF p > p_start THEN Append(fs, Text(Slice(s, p_start, p))) ELSE fs,
              p |-> p, terminated |-> FALSE, colon |-> FALSE]
        ELSE IF s[p + 1] = "~"
             THEN Directed(IF p > p_start THEN Append(fs, Text(Slice(s, p_start, p))) ELSE fs,
                           parse_directive(s, p + 1, end))
             ELSE parse_spec_loop(s, p_start, p + 1, end, fs)

parse_spec(s, p, end) == parse_spec_loop(s, p, p, end, <<>>)

(***************************************************************************)
(* Formatter.get_params: a or b for each pair of zip_longest               *)
(***************************************************************************)
Or(a, b) == IF Truthy(a) THEN a ELSE b

get_params(params, defaults) ==
    [i \in 1..(IF Len(params) > Len(defaults) THEN Len(params) ELSE Len(defaults)) |->
        Or(IF i <= Len(params) THEN params[i] ELSE NoneV, IF i <= Len(defaults) THEN defaults[i] ELSE NoneV)]

(***************************************************************************)
(* The result of an emit method: the text it wrote to the file (also when  *)
(* it raised), the new cursor and newline flag, the exception raised ("" if*)
(* none), the cursors at which it read args, the marker classes whose emit *)
(* was entered, and the node as the call left it.                          *)
(***************************************************************************)
Result(self, text, p, nl, reads0) ==
    [self |-> self, text |-> text, pos |-> p, nl |-> nl, err |-> "", reads |-> reads0, hit |-> {}]

Raise(self, e, text, p, nl, reads0) ==
    [self |-> self, text |-> text, pos |-> p, nl |-> nl, err |-> e, reads |-> reads0, hit |-> {}]

LastIsNewline(text) == text # <<>> /\ text[Len(text)] = NL

\* Text.emit
TextEmit(self, as, p, nl) == Result(self, self.text, p, LastIsNewline(self.text), {})

\* Character.emit
CharacterEmit(self, as, p, nl) ==
    IF ~InRange(as, p) THEN Raise(self, "IndexError", <<>>, p, nl, {})
    ELSE Result(self, Str(PyIndex(as, p)), p + 1, PyIndex(as, p) = StrV(<<NL>>), {p})

\* Newline.emit
NewlineEmit(self, as, p, nl) ==
    LET Times(times) ==
            IF ~IsInt(times) THEN Raise(self, "TypeError", <<>>, p, nl, {})
            ELSE Result(self, Repeat(<<NL>>, times.n), p, TRUE, {})
    IN  Times(get_params(self.params, <<IntV(1)>>)[1])

\* Freshline.emit
FreshlineEmit(self, as, p, nl) ==
    LET Times(times, first) ==
            IF ~IsInt(times) THEN Raise(self, "TypeError", first, p, nl, {})
            ELSE Result(self, first \o Repeat(<<NL>>, times.n - 1), p, TRUE, {})
    IN  Times(get_params(self.params, <<IntV(1)>>)[1], IF ~nl THEN <<NL>> ELSE <<>>)

\* Number.emit
NumberEmit(self, as, p, nl) ==
    IF ~InRange(as, p) THEN Raise(self, "IndexError", <<>>, p, nl, {})
    ELSE Result(self, Str(PyIndex(as, p)), p + 1, FALSE, {p})

(***************************************************************************)
(* IntegerFormatter                                                        *)
(***************************************************************************)
base(cls) == CASE cls = "Decimal" -> 10 [] cls = "Binary" -> 2 [] cls = "Octal" -> 8 [] OTHER -> 16

\* to_string without the zero padding of an inner group
to_string_unpadded(b, n, padded, e) == FmtFormat(n, b)

\* IntegerFormatter.to_string; fmt is the format of the class's base
to_string(b, n, padded, e) == IF padded THEN Tail(FmtFormat(e + n, b)) ELSE FmtFormat(n, b)

\* the while loop of commafy; err when the separator is not a string
RECURSIVE commafy_loop(_, _, _, _, _)
commafy_loop(b, n, e, comma, s) ==
    IF n > 0
    THEN IF comma.kind # "str" THEN [err |-> "TypeError", s |-> s]
         ELSE commafy_loop(b, n \div e, e, comma, to_string(b, n % e, n >= e, e) \o comma.s \o s)
    ELSE [err |-> "", s |-> s]

\* IntegerFormatter.commafy for an integer n and a positive integer group size
commafy(b, n0, comma, comma_int) ==
    LET Groups(n, e) == commafy_loop(b, n \div e, e, comma, to_string(b, n % e, n >= e, e))
    IN  Groups(IF n0 < 0 THEN -n0 ELSE n0, Pow(b, comma_int))

\* IntegerFormatter.emit
IntegerEmit(self, as, p, nl) ==
    IF ~InRange(as, p) THEN Raise(self, "IndexError", <<>>, p, nl, {})
    ELSE IF Len(self.params) > 4 THEN Raise(self, "ValueError", <<>>, p, nl, {p})
    ELSE
    LET \* the padding of text to col columns
        Padded(text, col, padchar) ==
            (IF padchar.kind = "str" THEN Repeat(padchar.s, col.n - Len(text))
             ELSE FmtFormat(padchar.n * (col.n - Len(text)), 10)) \o text
        Signed(sign, body, col, padchar) ==
            IF body.err # "" THEN Raise(self, body.err, <<>>, p, nl, {p})
            ELSE IF ~IsInt(col) THEN Raise(self, "TypeError", <<>>, p, nl, {p})
            ELSE Result(self, Padded(sign \o body.s, col, padchar), p + 1, FALSE, {p})
        Emit(v, col, padchar, comma, comma_int) ==
            IF v.kind \in {"str", "none"} THEN Raise(self, "TypeError", <<>>, p, nl, {p})
            ELSE IF self.colon /\ ~IsInt(comma_int) THEN Raise(self, "TypeError", <<>>, p, nl, {p})
            ELSE IF v.kind = "float" THEN Raise(self, "ValueError", <<>>, p, nl, {p})
            ELSE IF self.colon /\ comma_int.n < 0 THEN Raise(self, "ValueError", <<>>, p, nl, {p})
            ELSE Signed(IF v.n < 0 THEN <<"-">> ELSE IF self.at THEN <<"+">> ELSE <<>>,
                        IF self.colon THEN commafy(base(self.cls), v.n, comma, comma_int.n)
                        ELSE [err |-> "", s |-> to_string(base(self.cls), v.n, FALSE, 0)],
                        col, padchar)
        Params(ps) == Emit(PyIndex(as, p), ps[1], ps[2], ps[3], ps[4])
    IN  Params(get_params(self.params, <<IntV(0), StrV(<<" ">>), StrV(<<",">>), IntV(3)>>))

(***************************************************************************)
(* ObjectFormatter                                                         *)
(***************************************************************************)
\* math.ceil(a / b) for integers a and b, b # 0
Ceil(a, b) == IF b > 0 THEN -((-a) \div b) ELSE -(a \div (-b))

\* Aesthetic.to_string, Standard.to_string
ObjectToString(cls, o) == IF cls = "Aesthetic" THEN Str(o) ELSE Repr(o)

\* the number of pad characters that ObjectFormatter.emit computes (negative: none)
padding(mincol, colinc, minpad, len) == minpad + (colinc * Ceil(mincol - (len + minpad), colinc))

\* ObjectFormatter.emit
ObjectEmit(self, as, p, nl) ==
    IF Len(self.params) > 4 THEN Raise(self, "ValueError", <<>>, p, nl, {})
    ELSE IF ~InRange(as, p) THEN Raise(self, "IndexError", <<>>, p, nl, {})
    ELSE
    LET Written(text) ==
            IF text = <<>> THEN Raise(self, "IndexError", <<>>, p, nl, {p})
            ELSE Result(self, text, p + 1, text[Len(text)] = NL, {p})
        Padded(s, pad) == Written(IF self.at THEN pad \o s ELSE s \o pad)
        Emit(s, mincol, colinc, minpad, padchar) ==
            IF ~(IsInt(mincol) /\ IsInt(colinc) /\ IsInt(minpad)) THEN Raise(self, "TypeError", <<>>, p, nl, {p})
            ELSE IF padchar.kind # "str" THEN Raise(self, "TypeError", <<>>, p, nl, {p})
            ELSE Padded(s, Repeat(padchar.s, padding(mincol.n, colinc.n, minpad.n, Len(s))))
        Params(ps) == Emit(ObjectToString(self.cls, PyIndex(as, p)), ps[1], ps[2], ps[3], ps[4])
    IN  Params(get_params(self.params, <<IntV(0), IntV(1), IntV(0), StrV(<<" ">>)>>))

(***************************************************************************)
(* Goto.  The cursor of the model is an integer: the control strings of the*)
(* model give ~* integer parameters only (a character parameter would make *)
(* the cursor a string under @).                                           *)
(***************************************************************************)
GotoEmit(self, as, p, nl) ==
    LET Move(n) ==
            IF ~IsInt(n) THEN Raise(self, "TypeError", <<>>, p, nl, {})
            ELSE IF self.at THEN Result(self, <<>>, n.n, nl, {})
            ELSE Result(self, <<>>, IF self.colon THEN p - n.n ELSE p + n.n, nl, {})
    IN  Move(get_params(self.params, <<IntV(IF self.at THEN 0 ELSE 1)>>)[1])

\* Plural.emit
PluralEmit(self, as, p0, nl) ==
    LET Ending(p, ending) == Result(self, ending, p + 1, nl /\ ending = <<>>, {p})
        At(p) ==
            IF ~InRange(as, p) THEN Raise(self, "IndexError", <<>>, p0, nl, {})
            ELSE Ending(p, IF EqualsOne(PyIndex(as, p))
                           THEN (IF ~self.at THEN <<>> ELSE <<"y">>)
                           ELSE (IF ~self.at THEN <<"s">> ELSE <<"i", "e", "s">>))
    IN  At(IF self.colon THEN p0 - 1 ELSE p0)

\* Semicolon.emit, EndConditional.emit, EndCaseConversion.emit
MarkerEmit(self, as, p, nl) == [Raise(self, "Exception", <<>>, p, nl, {}) EXCEPT !.hit = {self.cls}]

\* Iteration.emit: the name formatters is not defined in its scope
IterationEmit(self, as, p, nl) == Raise(self, "NameError", <<>>, p, nl, {})

\* string_capitalize
string_capitalize(s) ==
    [i \in 1..Len(s) |->
        IF ~IsWordChar(s[i]) THEN s[i]
        ELSE IF i = 1 \/ ~IsWordChar(s[i - 1]) THEN UpperChar(s[i]) ELSE LowerChar(s[i])]

\* the transform that CaseConversion.emit applies
Convert(at, colon, s) ==
    IF ~(at \/ colon) THEN Lower(s)
    ELSE IF colon /\ ~at THEN string_capitalize(s)
    ELSE IF at /\ ~colon THEN Capitalize(s)
    ELSE Upper(s)

(***************************************************************************)
(* The interpreter                                                         *)
(***************************************************************************)
RECURSIVE emit(_, _, _, _)
RECURSIVE NodeEmit(_, _, _, _)

\* the clause that Conditional.emit selects: j is its 1-based index, 0 for the empty list
SelectClause(self, as, p) ==
    LET Select(v, k, delimiter) ==
            IF ~(self.at \/ self.colon)
            THEN IF v.kind \in {"str", "none"} THEN [err |-> "TypeError", j |-> 0]
                 ELSE IF v.n < k
                 THEN IF v.kind = "float" THEN [err |-> "TypeError", j |-> 0]
                      ELSE IF ~InRange(self.clauses, v.n) THEN [err |-> "IndexError", j |-> 0]
                      ELSE [err |-> "", j |-> IF v.n < 0 THEN k + v.n + 1 ELSE v.n + 1]
                 ELSE IF delimiter.cls = "None" THEN [err |-> "AttributeError", j |-> 0]
                      ELSE [err |-> "", j |-> IF delimiter.colon THEN k ELSE 0]
            ELSE IF Truthy(v)
                 THEN IF k < 2 THEN [err |-> "IndexError", j |-> 0] ELSE [err |-> "", j |-> 2]
                 ELSE [err |-> "", j |-> 1]
    IN  Select(PyIndex(as, p), Len(self.clauses), self.delimiters[Len(self.delimiters)])

\* the outcome of Conditional.emit once r is the outcome of its clause j (0: the empty list)
ClauseEmitted(self, j, p, r) ==
    [self |-> IF j = 0 THEN self ELSE [self EXCEPT !.clauses[j] = r.formatters],
     text |-> r.text, pos |-> r.pos, nl |-> r.nl, err |-> r.err,
     reads |-> {p} \cup r.reads, hit |-> r.hit]

\* Conditional.emit
ConditionalEmit(self, as, p, nl) ==
    IF self.at /\ self.colon THEN Raise(self, "TypeError", <<>>, p, nl, {})
    ELSE IF ~InRange(as, p) THEN Raise(self, "IndexError", <<>>, p, nl, {})
    ELSE IF self.at
    THEN IF Truthy(PyIndex(as, p))
         THEN ClauseEmitted(self, 1, p, emit(self.clauses[1], as, p, nl))
         ELSE Result(self, <<>>, p + 1, nl, {p})
    ELSE LET Selected(c) ==
                 IF c.err # "" THEN Raise(self, c.err, <<>>, p, nl, {p})
                 ELSE ClauseEmitted(self, c.j, p, emit(IF c.j = 0 THEN <<>> ELSE self.clauses[c.j], as, p + 1, nl))
         IN  Selected(SelectClause(self, as, p))

\* CaseConversion.emit keeping the converted text in place of its body
CaseConversionEmitInPlace(self, as, p, nl) ==
    LET Converted(r, t) ==
            [self |-> [self EXCEPT !.formatters = IF t = <<>> THEN <<>> ELSE <<Text(t)>>],
             text |-> t, pos |-> r.pos, nl |-> r.nl, err |-> r.err, reads |-> r.reads, hit |-> r.hit]
        Body(r) == Converted(r, IF r.err # "" THEN <<>> ELSE Convert(self.at, self.colon, r.text))
    IN  Body(emit(self.formatters, as, p, nl))

\* CaseConversion.emit: the body is emitted into a StringIO, lost when the body raises
CaseConversionEmit(self, as, p, nl) ==
    LET Body(r) ==
            [self |-> [self EXCEPT !.formatters = r.formatters],
             text |-> IF r.err # "" THEN <<>> ELSE Convert(self.at, self.colon, r.text),
             pos |-> r.pos, nl |-> r.nl, err |-> r.err, reads |-> r.reads, hit |-> r.hit]
    IN  Body(emit(self.formatters, as, p, nl))

\* f.emit(args, p, nl, file), dispatched on the class of f
NodeEmit(f, as, p, nl) ==
    CASE f.cls = "Text" -> TextEmit(f, as, p, nl)
      [] f.cls = "Character" -> CharacterEmit(f, as, p, nl)
      [] f.cls = "Newline" -> NewlineEmit(f, as, p, nl)
      [] f.cls = "Freshline" -> FreshlineEmit(f, as, p, nl)
      [] f.cls = "Number" -> NumberEmit(f, as, p, nl)
      [] f.cls \in {"Decimal", "Binary", "Octal", "Hex"} -> IntegerEmit(f, as, p, nl)
      [] f.cls \in {"Aesthetic", "Standard"} -> ObjectEmit(f, as, p, nl)
      [] f.cls = "Goto" -> GotoEmit(f, as, p, nl)
      [] f.cls = "Conditional" -> ConditionalEmit(f, as, p, nl)
      [] f.cls = "CaseConversion" -> CaseConversionEmit(f, as, p, nl)
      [] f.cls = "Plural" -> PluralEmit(f, as, p, nl)
      [] f.cls = "Iteration" -> IterationEmit(f, as, p, nl)
      [] OTHER -> MarkerEmit(f, as, p, nl)

\* emit(formatters, args, pos, newline, file): the loop over the nodes, up to the first exception
emit(fs, as, p, nl) ==
    IF fs = <<>>
    THEN [formatters |-> <<>>, text |-> <<>>, pos |-> p, nl |-> nl, err |-> "", reads |-> {}, hit |-> {}]
    ELSE LET Rest(r, rest) ==
                 [formatters |-> <<r.self>> \o rest.formatters, text |-> r.text \o rest.text,
                  pos |-> rest.pos, nl |-> rest.nl, err |-> rest.err,
                  reads |-> r.reads \cup rest.reads, hit |-> r.hit \cup rest.hit]
             First(r) ==
                 IF r.err # ""
                 THEN [formatters |-> <<r.self>> \o Tail(fs), text |-> r.text, pos |-> r.pos, nl |-> r.nl,
                       err |-> r.err, reads |-> r.reads, hit |-> r.hit]
                 ELSE Rest(r, emit(Tail(fs), as, r.pos, r.nl))
         IN  First(NodeEmit(Head(fs), as, p, nl))

\* format(spec, *args, file=None): the text, or the exception
format(s, as) ==
    LET Emitted(r) == IF r.err # "" THEN [err |-> r.err, text |-> <<>>] ELSE [err |-> "", text |-> r.text]
        Tree(t) == IF t.err # "" THEN [err |-> t.err, text |-> <<>>] ELSE Emitted(emit(t.formatters, as, 0, TRUE))
    IN  Tree(parse_spec(s, 0, "None"))

(***************************************************************************)
(* The state machine: format(spec, *args) parses the control string and    *)
(* runs the loop of emit one top-level node at a time.  A parsed tree may  *)
(* be emitted again against another argument list.                         *)
(*   phase   "start", "rejected" (the parser raised), "emitting", "done",  *)
(*           "failed" (an emit method raised)                              *)
(*   idx     the 0-based index of the next node of the loop                *)
(*   file    the text written to the sink in this pass                     *)
(*   reads   the cursors at which this pass read args                      *)
(*   last    the last call f.emit(args, p, nl, file) of the loop: the node,*)
(*           the cursor and newline flag passed in, the text it wrote, the *)
(*           exception it raised and the marker classes it entered         *)
(***************************************************************************)
NoCall == [node |-> NoDelimiter, pos |-> 0, nl |-> TRUE, text |-> <<>>, err |-> "", hit |-> {}]

Start(s, as) ==
    /\ spec = s
    /\ args = as
    /\ formatters = <<>>
    /\ phase = "start"
    /\ idx = 0
    /\ pos = 0
    /\ newline = TRUE
    /\ file = <<>>
    /\ reads = {}
    /\ last = NoCall
    /\ passes = 0

\* format: parse_spec(spec, 0), then emit(..., args, 0, True)
Parse ==
    /\ phase = "start"
    /\ LET Tree(t) ==
               IF t.err # ""
               THEN /\ phase' = "rejected"
                    /\ UNCHANGED <<formatters, passes>>
               ELSE /\ phase' = "emitting"
                    /\ formatters' = t.formatters
                    /\ passes' = 1
       IN  Tree(parse_spec(spec, 0, "None"))
    /\ UNCHANGED <<spec, args, idx, pos, newline, file, reads, last>>

\* emit: one iteration of `for f in formatters: p, nl = f.emit(args, p, nl, file)`
Step ==
    /\ phase = "emitting"
    /\ idx < Len(formatters)
    /\ LET Called(f, r) ==
               /\ formatters' = [formatters EXCEPT ![idx + 1] = r.self]
               /\ file' = file \o r.text
               /\ reads' = reads \cup r.reads
               /\ last' = [node |-> f, pos |-> pos, nl |-> newline, text |-> r.text, err |-> r.err, hit |-> r.hit]
               /\ IF r.err # ""
                  THEN /\ phase' = "failed"
                       /\ UNCHANGED <<idx, pos, newline>>
                  ELSE /\ idx' = idx + 1
                       /\ pos' = r.pos
                       /\ newline' = r.nl
                       /\ UNCHANGED phase
       IN  Called(formatters[idx + 1], NodeEmit(formatters[idx + 1], args, pos, newline))
    /\ UNCHANGED <<spec, args, passes>>

\* emit: the loop is over, the pass returns (text, p, nl)
Return ==
    /\ phase = "emitting"
    /\ idx = Len(formatters)
    /\ phase' = "done"
    /\ UNCHANGED <<spec, args, formatters, idx, pos, newline, file, reads, last, passes>>

(***************************************************************************)
(* Control strings of the model                                            *)
(***************************************************************************)
Unset == <<>>

IntParam(n) == FmtFormat(n, 10)

CharParam(c) == <<"'", c>>

RECURSIVE Join(_)
Join(ps) == IF ps = <<>> THEN <<>> ELSE IF Len(ps) = 1 THEN ps[1] ELSE ps[1] \o <<",">> \o Join(Tail(ps))

Directive(params, flags, char) == <<"~">> \o Join(params) \o flags \o <<char>>

Flags == {<<>>, <<":">>, <<"@">>, <<":", "@">>}

SeqsUpTo(S, n) == UNION {[1..k -> S] : k \in 0..n}

Ints(n) == [i \in 1..n |-> IntV(i)]

NextOnce == Parse \/ Step \/ Return

(***************************************************************************)
(* Integer directives: ~col,padchar,comma,comma_int[:][@]d|b|o|x against   *)
(* one integer argument                                                    *)
(***************************************************************************)
MaxInt == 1100

MaxCol == 2

MaxGroup == 3

\* without the colon flag the width varies, with it the separator and the group size
IntegerSpecs ==
    {Directive(<<col, pad, Unset, Unset>>, fl, c) :
        col \in {Unset} \cup {IntParam(k) : k \in 0..MaxCol},
        pad \in {Unset},
        fl \in {<<>>, <<"@">>},
        c \in {"d", "b", "o", "x"}}
    \cup
    {Directive(<<Unset, CharParam("0"), sep, g>>, fl, c) :
        sep \in {Unset, CharParam(".")},
        g \in {Unset} \cup {IntParam(k) : k \in 1..MaxGroup},
        fl \in {<<":">>, <<":", "@">>},
        c \in {"d", "b", "o", "x"}}

InitInteger == \E s \in IntegerSpecs, n \in (-MaxInt)..MaxInt : Start(s, <<IntV(n)>>)

SpecInteger == InitInteger /\ [][NextOnce]_vars

IntegerClasses == {"Decimal", "Binary", "Octal", "Hex"}

\* the argument at the cursor the last call was given
LastArg == PyIndex(args, last.pos)

Abs(n) == IF n < 0 THEN -n ELSE n

\* the last call ran an integer directive whose width is 0 on an integer argument
IntegerCallAtWidthZero ==
    /\ last.node.cls \in IntegerClasses
    /\ Len(last.node.params) = 4
    /\ last.node.params[1] \in {NoneV, IntV(0)}
    /\ LastArg.kind = "int"

\* the group size and separator in force: the parameter, or 3 and the comma
GroupSize(node) == IF node.params[4].kind = "int" /\ node.params[4].n # 0 THEN node.params[4].n ELSE 3

GroupChar(node) == IF node.params[3].kind = "str" THEN node.params[3].s[1] ELSE ","

\* the digits ds in groups of g counted from the least significant digit
RECURSIVE GroupDigits(_, _, _)
GroupDigits(ds, g, sep) ==
    IF Len(ds) <= g THEN ds
    ELSE GroupDigits(SubSeq(ds, 1, Len(ds) - g), g, sep) \o <<sep>> \o SubSeq(ds, Len(ds) - g + 1, Len(ds))

ExpectedSign(node, n) == IF n < 0 THEN <<"-">> ELSE IF node.at THEN <<"+">> ELSE <<>>

ExpectedDigits(node, n) ==
    IF node.colon THEN GroupDigits(NatDigits(Abs(n), base(node.cls)), GroupSize(node), GroupChar(node))
    ELSE NatDigits(Abs(n), base(node.cls))

\* C1: an integer directive of width 0 emits one '-' for a negative argument, one '+' for a
\* non-negative argument under the at flag, no sign otherwise, then the digits of |n| in the
\* base, grouped under the colon flag
C1_SignThenDigits ==
    IntegerCallAtWidthZero =>
        /\ last.err = ""
        /\ last.text = ExpectedSign(last.node, LastArg.n) \o ExpectedDigits(last.node, LastArg.n)

\* the text of the last call without its sign
Unsigned(text) == IF text # <<>> /\ text[1] \in {"+", "-"} THEN Tail(text) ELSE text

\* C7: under the colon flag a non-negative integer is emitted in groups: counted from the right,
\* every (g+1)-th character is the separator and no other is, the text does not start with a
\* separator, and the text without its separators is the ungrouped representation of n
C7_GroupingRoundTrip ==
    (IntegerCallAtWidthZero /\ last.node.colon /\ LastArg.n >= 0) =>
        LET Grouped(t, g, sep) ==
                LET IsDigit(c) == c # sep
                IN  /\ last.err = ""
                    /\ t # <<>>
                    /\ t[1] # sep
                    /\ \A i \in 1..Len(t) : (t[i] = sep) <=> ((Len(t) - i + 1) % (g + 1) = 0)
                    /\ SelectSeq(t, IsDigit) = NatDigits(LastArg.n, base(last.node.cls))
        IN  Grouped(Unsigned(last.text), GroupSize(last.node), GroupChar(last.node))

\* a grouped number with a zero right after a separator has been emitted
C7_Witness ==
    /\ phase = "done"
    /\ IntegerCallAtWidthZero /\ last.node.colon /\ LastArg.n >= 0
    /\ \E i \in 1..(Len(last.text) - 1) : last.text[i] = GroupChar(last.node) /\ last.text[i + 1] = "0"

(***************************************************************************)
(* Object directives: ~mincol,colinc,minpad,padchar[@]a|s against one value*)
(***************************************************************************)
MaxMinCol == 5

MaxColInc == 3

MaxMinPad == 2

ObjectSpecs ==
    {Directive(<<mincol, colinc, minpad, padchar>>, fl, c) :
        mincol \in {Unset} \cup {IntParam(k) : k \in 0..MaxMinCol},
        colinc \in {Unset} \cup {IntParam(k) : k \in 1..MaxColInc},
        minpad \in {Unset} \cup {IntParam(k) : k \in 0..MaxMinPad},
        padchar \in {Unset, CharParam("*")},
        fl \in {<<>>, <<"@">>},
        c \in {"a", "s"}}

ObjectValues == {StrV(<<>>), StrV(<<"a", "b">>), IntV(-12)}

InitObject == \E s \in ObjectSpecs, v \in ObjectValues : Start(s, <<v>>)

SpecObject == InitObject /\ [][NextOnce]_vars

ObjectCall == last.node.cls \in {"Aesthetic", "Standard"} /\ Len(last.node.params) = 4

\* the parameters in force: the parameter, or the default when it is unset
ParamOr(node, i, default) == IF node.params[i].kind = "none" THEN default ELSE node.params[i].n

PadChar(node) == IF node.params[4].kind = "str" THEN node.params[4].s[1] ELSE " "

\* the smallest minPad + j*colInc, j >= 0, that brings a text of length len to minCol
RECURSIVE SmallestPad(_, _, _, _)
SmallestPad(k, colInc, minCol, len) ==
    IF len + k >= minCol THEN k ELSE SmallestPad(k + colInc, colInc, minCol, len)

\* C6: an object directive emits the value's text and exactly k pad characters, k the smallest
\* minPad + j*colInc (j >= 0) with len(text) + k >= minCol, before the text under the at flag
\* and after it otherwise, and consumes one argument
C6_SmallestPadding ==
    ObjectCall =>
        LET Padded(text, pad) ==
                /\ last.err = ""
                /\ last.text = IF last.node.at THEN pad \o text ELSE text \o pad
                /\ pos = last.pos + 1
            Pad(k) == [i \in 1..k |-> PadChar(last.node)]
            Of(text) == Padded(text, Pad(SmallestPad(ParamOr(last.node, 3, 0), ParamOr(last.node, 2, 1),
                                                     ParamOr(last.node, 1, 0), Len(text))))
        IN  Of(ObjectToString(last.node.cls, LastArg))

(***************************************************************************)
(* Cursor movement: up to MaxDirectives directives among ~a, ~:p and       *)
(* ~n[:][@]* against the arguments 1, 2, ...                               *)
(***************************************************************************)
MaxOffset == 2

MaxDirectives == 3

MaxArgs == 3

GotoPieces == {Directive(<<n>>, fl, "*") : n \in {Unset} \cup {IntParam(k) : k \in 0..MaxOffset}, fl \in Flags}

CursorPieces == GotoPieces \cup {<<"~", "a">>, <<"~", ":", "p">>}

InitCursor == \E ps \in SeqsUpTo(CursorPieces, MaxDirectives), k \in 0..MaxArgs : Start(Flatten(ps), Ints(k))

SpecCursor == InitCursor /\ [][NextOnce]_vars

\* C3: a directive that reads an argument with the cursor outside 0 .. len(args)-1 makes the pass
\* fail; in a pass that completes, every argument read was read at a cursor inside that range
C3_ReadsInsideArgs == phase = "done" => \A c \in reads : 0 <= c /\ c < Len(args)

\* C4: goto with an explicit parameter n >= 0 sets the cursor to n under the at flag, to pos - n
\* under the colon flag alone and to pos + n with no flag; an unset parameter counts as 1 (0 under
\* the at flag); it writes no text and leaves the newline flag as it was
C4_GotoMovesByParameter ==
    (last.node.cls = "Goto" /\ Len(last.node.params) = 1 /\ last.node.params[1].kind \in {"int", "none"}) =>
        LET n == IF last.node.params[1].kind = "int" THEN last.node.params[1].n
                 ELSE IF last.node.at THEN 0 ELSE 1
        IN  /\ last.err = ""
            /\ pos = IF last.node.at THEN n ELSE IF last.node.colon THEN last.pos - n ELSE last.pos + n
            /\ last.text = <<>>
            /\ newline = last.nl

(***************************************************************************)
(* Pluralize: ~[:][@]p, behind a ~a when it looks back, against one or two *)
(* values                                                                  *)
(***************************************************************************)
PluralSpecs ==
    {Directive(<<>>, fl, "p") : fl \in {<<>>, <<"@">>}}
        \cup {<<"~", "a">> \o Directive(<<>>, fl, "p") : fl \in Flags}
        \cup {<<"p", "i", "g">> \o Directive(<<>>, fl, "p") : fl \in {<<>>, <<"@">>}}

PluralValues == {IntV(0), IntV(1), IntV(2), FloatV(1), BoolV(TRUE), StrV(<<"1">>)}

InitPlural == \E s \in PluralSpecs, as \in [1..1 -> PluralValues] \cup [1..2 -> PluralValues] : Start(s, as)

SpecPlural == InitPlural /\ [][NextOnce]_vars

\* the cursor of the argument that pluralize inspects
InspectedCursor == IF last.node.colon THEN last.pos - 1 ELSE last.pos

\* C8: pluralize emits the singular ending ('' or, under the at flag, 'y') if and only if the
\* inspected value is the integer 1, and the plural ending ('s' or 'ies') for every other value
C8_SingularOnlyForIntegerOne ==
    (last.node.cls = "Plural" /\ 0 <= InspectedCursor /\ InspectedCursor < Len(args)) =>
        LET v == args[InspectedCursor + 1]
        IN  /\ last.err = ""
            /\ last.text = IF v = IntV(1)
                           THEN (IF last.node.at THEN <<"y">> ELSE <<>>)
                           ELSE (IF last.node.at THEN <<"i", "e", "s">> ELSE <<"s">>)

(***************************************************************************)
(* Conditional: ~[c1~;c2~:;c3~] with up to MaxClauses clauses, the i-th a  *)
(* ~a or the i-th letter, against an index and one more argument           *)
(***************************************************************************)
MaxClauses == 3

MaxIndex == 4

ClauseBodies(i) == {<<"~", "a">>, <<LowerChars[i]>>}

Separators == {<<"~", ";">>, <<"~", ":", ";">>}

RECURSIVE ClauseLists(_)
ClauseLists(k) ==
    IF k = 1 THEN ClauseBodies(1)
    ELSE {cs \o sep \o c : cs \in ClauseLists(k - 1), sep \in Separators, c \in ClauseBodies(k)}

ConditionalSpecs == {<<"~", "[">> \o cs \o <<"~", "]">> : cs \in UNION {ClauseLists(k) : k \in 1..MaxClauses}}

InitConditional ==
    \E s \in ConditionalSpecs, i \in (-MaxIndex)..MaxIndex : Start(s, <<IntV(i), IntV(9)>>)

SpecConditional == InitConditional /\ [][NextOnce]_vars

\* the text a clause writes when it runs after the index argument was consumed
ClauseText(clause) == emit(clause, args, last.pos + 1, last.nl).text

\* C2: a conditional with neither flag emits clause i for an index 0 <= i < k; for an index out of
\* range it emits the last clause if the final separator carried the colon flag and nothing
\* otherwise, without error; the clause runs with the cursor one past the index argument
C2_ClauseByIndex ==
    (last.node.cls = "Conditional" /\ ~last.node.at /\ ~last.node.colon /\ LastArg.kind = "int") =>
        LET i == LastArg.n
            k == Len(last.node.clauses)
            final == last.node.delimiters[k]
        IN  /\ last.err = ""
            /\ last.text = IF 0 <= i /\ i < k THEN ClauseText(last.node.clauses[i + 1])
                           ELSE IF final.cls = "Semicolon" /\ final.colon THEN ClauseText(last.node.clauses[k])
                           ELSE <<>>

(***************************************************************************)
(* Newline flag: up to MaxDirectives pieces of text and directives against *)
(* two texts that are, end with or hold no newline                         *)
(***************************************************************************)
NewlinePieces ==
    {<<"x">>, <<NL>>, <<"~", "%">>, <<"~", "&">>, <<"~", "c">>, <<"~", "r">>, <<"~", "a">>, <<"~", "p">>,
     <<"~", "*">>, <<"~", "d">>}

NewlineValues == {StrV(<<NL>>), StrV(<<"a", NL>>), StrV(<<"a">>), StrV(<<>>)}

InitNewline ==
    \E ps \in SeqsUpTo(NewlinePieces, MaxDirectives), v \in NewlineValues, w \in {StrV(<<NL>>), IntV(1)} :
        Start(Flatten(ps), <<v, w>>)

SpecNewline == InitNewline /\ [][NextOnce]_vars

\* C5: once a character has been written, the newline flag after every step of the pass is true
\* exactly when the last character written so far is a newline
C5_FlagTracksLastCharacter ==
    (phase \in {"emitting", "done"} /\ file # <<>>) => (newline <=> file[Len(file)] = NL)

(***************************************************************************)
(* Bracket structure and reuse of a parsed tree: up to MaxPieces pieces,   *)
(* the tree emitted up to MaxPasses times against the argument lists of    *)
(* ArgLists                                                                *)
(***************************************************************************)
MaxPieces == 3

MaxPasses == 2

BracketPieces ==
    {<<"~", "[">>, <<"~", "]">>, <<"~", ";">>, <<"~", ":", ";">>, <<"~", "(">>, <<"~", ")">>, <<"~", "{">>,
     <<"X">>, <<"~", "a">>, <<"X", "~", ";", "~", "a">>, <<"~", "a", "~", ":", ";", "X">>}

ArgLists == {<<IntV(0)>>, <<IntV(1), StrV(<<"Y">>)>>}

Init == \E ps \in SeqsUpTo(BracketPieces, MaxPieces), as \in ArgLists : Start(Flatten(ps), as)

\* emit(formatters, args, 0, True) called again on the tree of an earlier pass
Again ==
    /\ phase \in {"done", "failed"}
    /\ passes < MaxPasses
    /\ \E as \in ArgLists : args' = as
    /\ phase' = "emitting"
    /\ idx' = 0
    /\ pos' = 0
    /\ newline' = TRUE
    /\ file' = <<>>
    /\ reads' = {}
    /\ last' = NoCall
    /\ passes' = passes + 1
    /\ UNCHANGED <<spec, formatters>>

Next == Parse \/ Step \/ Return \/ Again

Spec == Init /\ [][Next]_vars

\* C9: a pass leaves the parsed tree as the parser built it, and every pass over it ends as a
\* pass over a freshly parsed tree of the same control string against the same arguments ends:
\* the same text, the same cursor and newline flag, or the same failure
C9_PassMatchesFreshParse ==
    phase \in {"emitting", "done", "failed"} =>
        LET Same(t, r) ==
                /\ formatters = t.formatters
                /\ phase = "done" => (r.err = "" /\ file = r.text /\ pos = r.pos /\ newline = r.nl)
                /\ phase = "failed" => (r.err # "" /\ r.err = last.err /\ file = r.text)
            Fresh(t) == Same(t, emit(t.formatters, args, 0, TRUE))
        IN  Fresh(parse_spec(spec, 0, "None"))

\* a second pass over a tree with a conditional or a case conversion has completed with output
C9_Witness ==
    /\ passes = 2
    /\ phase = "done"
    /\ file # <<>>
    /\ \E i \in 1..Len(formatters) : formatters[i].cls \in {"Conditional", "CaseConversion"}

\* C10: for a control string the parser accepts, no pass enters the emit method of a clause
\* separator or of a bracket terminator
C10_MarkersNeverEmitted == last.hit = {}

====
